---------------------------- MODULE Spec2Model ----------------------------
(***************************************************************************)
(* A model of the ccap caption library (src/src/lib.rs): the SimpleTime    *)
(* value, the CaptionBlock and Caption types and the operations on them,   *)
(* and the parsers and writers of the VTT and SRT formats.                 *)
(*                                                                         *)
(* A Rust panic is modelled as the result "panic"; a panicked run takes no *)
(* further step.  An Option is a sequence of length 0 (None) or 1 (Some).  *)
(***************************************************************************)
EXTENDS Integers, Sequences, FiniteSets, TLC

VARIABLES
    st,           \* the SimpleTime under operation
    old_st,       \* st as it was before the last operation
    caption,      \* the Caption under operation / the last Caption produced
    old_caption,  \* caption as it was before the last operation
    captions,     \* the Vec<Caption> collected for Caption::concatenate
    op,           \* name of the last operation
    arg,          \* argument of the last operation
    res,          \* its result: "Ok", an error name, or "panic"
    steps,        \* number of mutating operations applied since construction
    out,          \* the value or the error payload returned by the last operation
    files,        \* the file system: the contents of each path, if it is a file
    calls         \* the format parsers and writers the last operation invoked

vars == <<st, old_st, caption, old_caption, captions, op, arg, res, steps, out,
          files, calls>>

---------------------------------------------------------------------------
(* Bounds of the model *)

\* hours offered to the constructors
MaxHours == 2
\* offsets offered are -MaxOffset..MaxOffset times a unit
MaxOffset == 1
\* mutating operations applied in a row
MaxSteps == 2
\* documents collected for one concatenation
MaxDocs == 3
\* blocks in one document (offset) and in all collected documents (concatenate)
MaxBlocks == 2

---------------------------------------------------------------------------
(* lib.rs 6-8 *)

MILLIS_PER_SECOND == 1000
MILLIS_PER_MINUTE == 60 * MILLIS_PER_SECOND
MILLIS_PER_HOUR == 60 * MILLIS_PER_MINUTE

None == <<>>
Some(x) == <<x>>

\* the value of a call that panicked
Panic == [panic |-> TRUE]

\* a Result: Ok(value), Err(variant with its payload), or the call panicked
Ok(v) == [result |-> "Ok", value |-> v]
Err(e, payload) == [result |-> e, value |-> payload]
Panicked == [result |-> "panic", value |-> <<>>]

---------------------------------------------------------------------------
(* Paths and files *)

\* the paths offered to parse_file and write_caption
Paths ==
    { <<"a", ".", "v", "t", "t">>, <<"a", ".", "t", "x", "t">>,
      <<"a", ".", "s", "r", "t">>, <<"a", ".", "V", "T", "T">>,
      <<"a", ".", "m", "p", "4">>, <<"a">>, <<"a", ".">>, <<".", "v", "t", "t">>,
      <<"a", ".", "b", ".", "s", "r", "t">>, <<"a", ".", "s", "r", "t", ".", "b">>,
      <<"d", ".", "v", "t", "t", "/", "a">>, <<"d", "/", "a", ".", "v", "t", "t">>,
      <<".", ".">>, <<>> }

\* a file system in which no path is a file
NoFiles == [p \in Paths |-> None]

---------------------------------------------------------------------------
(* SimpleTime, lib.rs 52-129 *)

SimpleTime(hours, minutes, seconds, milliseconds) ==
    [hours |-> hours, minutes |-> minutes,
     seconds |-> seconds, milliseconds |-> milliseconds]

\* from_parts with the millisecond test written as > 1000
from_parts_ms_lax(hours, minutes, seconds, milliseconds) ==
    IF minutes >= 60 THEN Panic
    ELSE IF seconds >= 60 THEN Panic
    ELSE IF milliseconds > 1000 THEN Panic
    ELSE SimpleTime(hours, minutes, seconds, milliseconds)

\* lib.rs 62-80: panics on an out-of-range part, otherwise builds the value
from_parts(hours, minutes, seconds, milliseconds) ==
    IF minutes >= 60 THEN Panic
    ELSE IF seconds >= 60 THEN Panic
    ELSE IF milliseconds >= 999 THEN Panic
    ELSE SimpleTime(hours, minutes, seconds, milliseconds)

\* from_milliseconds without "t -= seconds * MILLIS_PER_SECOND"
from_milliseconds_keeps_seconds(m) ==
    LET t0 == m
        hours == t0 \div MILLIS_PER_HOUR
        t1 == t0 - hours * MILLIS_PER_HOUR
        minutes == t1 \div MILLIS_PER_MINUTE
        t2 == t1 - minutes * MILLIS_PER_MINUTE
        seconds == t2 \div MILLIS_PER_SECOND
        milliseconds == t2
    IN  SimpleTime(hours, minutes, seconds, milliseconds)

\* from_milliseconds without "t -= hours * MILLIS_PER_HOUR"
from_milliseconds_keeps_hours(m) ==
    LET t0 == m
        hours == t0 \div MILLIS_PER_HOUR
        minutes == t0 \div MILLIS_PER_MINUTE
        t2 == t0 - minutes * MILLIS_PER_MINUTE
        seconds == t2 \div MILLIS_PER_SECOND
        t3 == t2 - seconds * MILLIS_PER_SECOND
        milliseconds == t3
    IN  SimpleTime(hours, minutes, seconds, milliseconds)

\* lib.rs 83-100: successive division and subtraction
from_milliseconds(m) ==
    LET t0 == m
        hours == t0 \div MILLIS_PER_HOUR
        t1 == t0 - hours * MILLIS_PER_HOUR
        minutes == t1 \div MILLIS_PER_MINUTE
        t2 == t1 - minutes * MILLIS_PER_MINUTE
        seconds == t2 \div MILLIS_PER_SECOND
        t3 == t2 - seconds * MILLIS_PER_SECOND
        milliseconds == t3
    IN  SimpleTime(hours, minutes, seconds, milliseconds)

\* lib.rs 102-107
to_milliseconds(self) ==
    self.hours * MILLIS_PER_HOUR
        + self.minutes * MILLIS_PER_MINUTE
        + self.seconds * MILLIS_PER_SECOND
        + self.milliseconds

\* offset that saturates *self at zero before reporting the error
offset_saturating(self, n) ==
    LET new_millis == to_milliseconds(self) + n
    IN  IF new_millis < 0
        THEN [result |-> "NegativeSimpleTime", self |-> from_milliseconds(0)]
        ELSE [result |-> "Ok", self |-> from_milliseconds(new_millis)]

\* offset with the sign test written as <= 0
offset_rejects_zero(self, n) ==
    LET new_millis == to_milliseconds(self) + n
    IN  IF new_millis <= 0
        THEN [result |-> "NegativeSimpleTime", self |-> self]
        ELSE [result |-> "Ok", self |-> from_milliseconds(new_millis)]

\* offset adding the magnitude of n
offset_by_magnitude(self, n) ==
    LET new_millis == to_milliseconds(self) + (IF n < 0 THEN -n ELSE n)
    IN  IF new_millis < 0
        THEN [result |-> "NegativeSimpleTime", self |-> self]
        ELSE [result |-> "Ok", self |-> from_milliseconds(new_millis)]

\* lib.rs 117-128: the Result and the value left in *self
offset(self, n) ==
    LET new_millis == to_milliseconds(self) + n
    IN  IF new_millis < 0
        THEN [result |-> "NegativeSimpleTime", self |-> self]
        ELSE [result |-> "Ok", self |-> from_milliseconds(new_millis)]

---------------------------------------------------------------------------
(* Inputs offered to the SimpleTime operations *)

HourInputs == 0 .. MaxHours
\* around the limits the constructor tests
MinuteInputs == {0, 59, 60, 61}
SecondInputs == {0, 59, 60, 61}
MillisecondInputs == {0, 998, 999, 1000}

\* totals whose parts sit at the ends of their ranges
MilliInputs ==
    { h * MILLIS_PER_HOUR + m * MILLIS_PER_MINUTE + s * MILLIS_PER_SECOND + ms :
        h \in HourInputs, m \in {0, 58, 59}, s \in {0, 58, 59}, ms \in {0, 998, 999} }

Units == {1, MILLIS_PER_SECOND, MILLIS_PER_MINUTE, MILLIS_PER_HOUR}
Offsets == { k * u : k \in (-MaxOffset) .. MaxOffset, u \in Units }

---------------------------------------------------------------------------
(* The SimpleTime machine: a run constructs one value, then offsets it *)

NoCaption == [header |-> None, blocks |-> <<>>]

Init ==
    /\ st = from_milliseconds(0)
    /\ old_st = from_milliseconds(0)
    /\ caption = NoCaption
    /\ old_caption = NoCaption
    /\ captions = <<>>
    /\ op = "init"
    /\ arg = 0
    /\ res = "Ok"
    /\ steps = 0
    /\ out = <<>>
    /\ files = NoFiles
    /\ calls = <<>>

\* SimpleTime::from_parts(hours, minutes, seconds, milliseconds)
FromParts ==
    /\ op = "init"
    /\ \E h \in HourInputs, m \in MinuteInputs, s \in SecondInputs,
          ms \in MillisecondInputs :
        LET r == from_parts(h, m, s, ms)
        IN  /\ op' = "from_parts"
            /\ arg' = <<h, m, s, ms>>
            /\ old_st' = st
            /\ res' = IF r = Panic THEN "panic" ELSE "Ok"
            /\ st' = IF r = Panic THEN st ELSE r
            /\ steps' = 0
    /\ UNCHANGED <<caption, old_caption, captions, out, files, calls>>

\* SimpleTime::from_milliseconds(m)
FromMilliseconds ==
    /\ op = "init"
    /\ \E m \in MilliInputs :
        /\ op' = "from_milliseconds"
        /\ arg' = m
        /\ old_st' = st
        /\ res' = "Ok"
        /\ st' = from_milliseconds(m)
        /\ steps' = 0
    /\ UNCHANGED <<caption, old_caption, captions, out, files, calls>>

\* st.offset(n), on a value that was constructed
Offset ==
    /\ op # "init"
    /\ res # "panic"
    /\ steps < MaxSteps
    /\ \E n \in Offsets :
        LET r == offset(st, n)
        IN  /\ op' = "offset"
            /\ arg' = n
            /\ old_st' = st
            /\ res' = r.result
            /\ st' = r.self
            /\ steps' = steps + 1
    /\ UNCHANGED <<caption, old_caption, captions, out, files, calls>>

Next == FromParts \/ FromMilliseconds \/ Offset

Spec == Init /\ [][Next]_vars

---------------------------------------------------------------------------
(* CaptionBlock and Caption, lib.rs 872-989 *)

CaptionBlock(speaker, start, end, text) ==
    [speaker |-> speaker, start |-> start, end |-> end, text |-> text]

Caption(header, blocks) == [header |-> header, blocks |-> blocks]

\* CaptionBlock::from with the test written as diff <= 0
CaptionBlock_from_strict(speaker, start, end, text) ==
    LET diff == to_milliseconds(end) - to_milliseconds(start)
    IN  IF diff <= 0 THEN Err("EndsBeforeStart", <<start, end>>)
        ELSE Ok(CaptionBlock(speaker, start, end, text))

\* lib.rs 882-898
CaptionBlock_from(speaker, start, end, text) ==
    LET diff == to_milliseconds(end) - to_milliseconds(start)
    IN  IF diff < 0 THEN Err("EndsBeforeStart", <<start, end>>)
        ELSE Ok(CaptionBlock(speaker, start, end, text))

\* lib.rs 916-920: start is offset, then end; "?" returns at the first error
\* with whatever was already assigned
CaptionBlock_offset_milliseconds(self, n) ==
    LET s == offset(self.start, n)
        b1 == [self EXCEPT !.start = s.self]
        e == offset(self.end, n)
        b2 == [b1 EXCEPT !.end = e.self]
    IN  IF s.result # "Ok" THEN [result |-> s.result, self |-> self]
        ELSE IF e.result # "Ok" THEN [result |-> e.result, self |-> b1]
        ELSE [result |-> "Ok", self |-> b2]

\* the loop with "b.end.offset(n)?" left out
RECURSIVE offset_blocks_start_only(_, _, _)
offset_blocks_start_only(blocks, i, n) ==
    IF i > Len(blocks) THEN [result |-> "Ok", blocks |-> blocks]
    ELSE LET s == offset(blocks[i].start, n)
             b1 == [blocks EXCEPT ![i].start = s.self]
         IN  IF s.result # "Ok" THEN [result |-> s.result, blocks |-> blocks]
             ELSE offset_blocks_start_only(b1, i + 1, n)

\* the loop of lib.rs 951-954 from block i on, over the blocks as mutated so far
RECURSIVE offset_blocks(_, _, _)
offset_blocks(blocks, i, n) ==
    IF i > Len(blocks) THEN [result |-> "Ok", blocks |-> blocks]
    ELSE LET s == offset(blocks[i].start, n)
             b1 == [blocks EXCEPT ![i].start = s.self]
             e == offset(blocks[i].end, n)
             b2 == [b1 EXCEPT ![i].end = e.self]
         IN  IF s.result # "Ok" THEN [result |-> s.result, blocks |-> blocks]
             ELSE IF e.result # "Ok" THEN [result |-> e.result, blocks |-> b1]
             ELSE offset_blocks(b2, i + 1, n)

\* lib.rs 950-956: the Result and the value left in *self
Caption_offset_milliseconds(self, n) ==
    LET r == offset_blocks(self.blocks, 1, n)
    IN  [result |-> r.result, self |-> [self EXCEPT !.blocks = r.blocks]]

\* a usize returned by a call that did not panic
Returned(v) == [panic |-> FALSE, value |-> v]

\* lib.rs 958-960: blocks[0] panics when there is no block
time_head(self) ==
    IF Len(self.blocks) = 0 THEN Panic
    ELSE Returned(to_milliseconds(self.blocks[1].start))

\* lib.rs 962-964: unwrap() of last() panics when there is no block
time_tail(self) ==
    IF Len(self.blocks) = 0 THEN Panic
    ELSE Returned(to_milliseconds(self.blocks[Len(self.blocks)].end))

\* the copies of one caption's blocks, none of them offset
shifted_copies_unshifted(cap, last_ts) == Returned(cap.blocks)

\* lib.rs 974-980: the copies of one caption's blocks, each offset by last_ts;
\* expect() panics if an offset fails
shifted_copies(cap, last_ts) ==
    LET r == [j \in 1 .. Len(cap.blocks) |->
                 CaptionBlock_offset_milliseconds(cap.blocks[j], last_ts)]
    IN  IF \E j \in 1 .. Len(cap.blocks) : r[j].result # "Ok" THEN Panic
        ELSE Returned([j \in 1 .. Len(cap.blocks) |-> r[j].self])

\* the loop with "last_ts = cap.time_tail()" in place of "+="
RECURSIVE concatenate_from_last_tail(_, _, _, _)
concatenate_from_last_tail(caps, i, cb, last_ts) ==
    IF i > Len(caps) THEN Caption(None, cb)
    ELSE LET copies == shifted_copies(caps[i], last_ts)
             tail == time_tail(caps[i])
         IN  IF copies.panic THEN Panic
             ELSE IF tail.panic THEN Panic
             ELSE concatenate_from_last_tail(caps, i + 1, cb \o copies.value,
                                             tail.value)

\* the loop of lib.rs 973-983 from caption i on
RECURSIVE concatenate_from(_, _, _, _)
concatenate_from(caps, i, cb, last_ts) ==
    IF i > Len(caps) THEN Caption(None, cb)
    ELSE LET copies == shifted_copies(caps[i], last_ts)
             tail == time_tail(caps[i])
         IN  IF copies.panic THEN Panic
             ELSE IF tail.panic THEN Panic
             ELSE concatenate_from(caps, i + 1, cb \o copies.value,
                                   last_ts + tail.value)

\* lib.rs 967-988
concatenate(caps) == concatenate_from(caps, 1, <<>>, 0)

---------------------------------------------------------------------------
(* Strings: a str is the sequence of its characters, each a one-character  *)
(* string; all characters are ASCII, and no carriage return occurs         *)

Digits == <<"0", "1", "2", "3", "4", "5", "6", "7", "8", "9">>

IsDigit(c) == \E d \in 1 .. 10 : Digits[d] = c

DigitValue(c) == (CHOOSE d \in 1 .. 10 : Digits[d] = c) - 1

RECURSIVE DecimalValue(_)
DecimalValue(s) ==
    IF s = <<>> THEN 0
    ELSE 10 * DecimalValue(SubSeq(s, 1, Len(s) - 1)) + DigitValue(s[Len(s)])

\* str::parse::<usize>() (lib.rs 306, 320): an optional "+" and then one or
\* more decimal digits, nothing else
parse_usize(s) ==
    LET body == IF s # <<>> /\ s[1] = "+" THEN Tail(s) ELSE s
    IN  IF body = <<>> \/ \E i \in 1 .. Len(body) : ~IsDigit(body[i])
        THEN Err("ParseIntError", <<>>)
        ELSE Ok(DecimalValue(body))

\* usize formatted with "{}": its decimal digits
RECURSIVE to_string(_)
to_string(n) ==
    IF n < 10 THEN <<Digits[n + 1]>>
    ELSE to_string(n \div 10) \o <<Digits[(n % 10) + 1]>>

\* usize formatted with "{:0w}": zeros are added on the left up to the width w,
\* and a longer number is written in full
RECURSIVE pad_zero(_, _)
pad_zero(digits, w) ==
    IF Len(digits) >= w THEN digits ELSE pad_zero(<<"0">> \o digits, w)

format_padded(n, w) == pad_zero(to_string(n), w)

\* str::split(c): the pieces between the occurrences of c, one more than there
\* are occurrences
RECURSIVE split(_, _)
split(s, c) ==
    IF \A i \in 1 .. Len(s) : s[i] # c THEN <<s>>
    ELSE LET i == CHOOSE k \in 1 .. Len(s) :
                      s[k] = c /\ \A j \in 1 .. k - 1 : s[j] # c
         IN  <<SubSeq(s, 1, i - 1)>> \o split(SubSeq(s, i + 1, Len(s)), c)

\* str::lines(): the pieces between line feeds; a final line feed ends the
\* last line and does not start another
lines(s) ==
    LET p == split(s, "\n")
    IN  IF p[Len(p)] = <<>> THEN SubSeq(p, 1, Len(p) - 1) ELSE p

\* [String]::join(sep)
RECURSIVE join(_, _)
join(parts, sep) ==
    IF parts = <<>> THEN <<>>
    ELSE IF Len(parts) = 1 THEN parts[1]
    ELSE parts[1] \o sep \o join(Tail(parts), sep)

\* str::find / Iterator::position: the index (from 0) of the first character
\* satisfying the test, as an Option
position_of(s, c) ==
    IF \A i \in 1 .. Len(s) : s[i] # c THEN None
    ELSE Some((CHOOSE k \in 1 .. Len(s) :
                   s[k] = c /\ \A j \in 1 .. k - 1 : s[j] # c) - 1)

find_numeric(s) ==
    IF \A i \in 1 .. Len(s) : ~IsDigit(s[i]) THEN None
    ELSE Some((CHOOSE k \in 1 .. Len(s) :
                   IsDigit(s[k]) /\ \A j \in 1 .. k - 1 : ~IsDigit(s[j])) - 1)

\* str::get(a..b) with byte offsets a, b counted from 0: None when the range
\* is reversed or runs past the end
get_range(s, a, b) ==
    IF a <= b /\ b <= Len(s) THEN Some(SubSeq(s, a + 1, b)) ELSE None

---------------------------------------------------------------------------
(* Timestamps: parsing (lib.rs 313-373, 643-703), writing (533-541, 840-848) *)

\* VttParser::block_timestamp and SrtParser::block_timestamp, which differ in
\* the separator before the milliseconds only.  The second colon test reads
\* position 2 again (lib.rs 339, 669).
block_timestamp(s, sep) ==
    IF Len(s) # 12 THEN Err("InvalidTimestamp", s)
    ELSE LET hours == parse_usize(SubSeq(s, 1, 2))
             minutes == parse_usize(SubSeq(s, 4, 5))
             seconds == parse_usize(SubSeq(s, 7, 8))
             milliseconds == parse_usize(SubSeq(s, 10, 12))
         IN  IF hours.result # "Ok" THEN Err("InvalidTimestamp", s)
             ELSE IF s[3] # ":" THEN Err("InvalidTimestamp", s)
             ELSE IF minutes.result # "Ok" THEN Err("InvalidTimestamp", s)
             ELSE IF s[3] # ":" THEN Err("InvalidTimestamp", s)
             ELSE IF seconds.result # "Ok" THEN Err("InvalidTimestamp", s)
             ELSE IF s[9] # sep THEN Err("InvalidTimestamp", s)
             ELSE IF milliseconds.result # "Ok" THEN Err("InvalidTimestamp", s)
             ELSE LET t == from_parts(hours.value, minutes.value,
                                      seconds.value, milliseconds.value)
                  IN  IF t = Panic THEN Panicked ELSE Ok(t)

VttParser_block_timestamp(s) == block_timestamp(s, ".")

SrtParser_block_timestamp(s) == block_timestamp(s, ",")

\* format!("{:02}:{:02}:{:02}<sep>{:03}", ..) of lib.rs 534-540 and 841-847
timestamp_text(hours, minutes, seconds, milliseconds, sep) ==
    format_padded(hours, 2) \o <<":">> \o format_padded(minutes, 2) \o <<":">>
        \o format_padded(seconds, 2) \o <<sep>> \o format_padded(milliseconds, 3)

VttWriter_timestamp(t) ==
    timestamp_text(t.hours, t.minutes, t.seconds, t.milliseconds, ".")

SrtWriter_timestamp(t) ==
    timestamp_text(t.hours, t.minutes, t.seconds, t.milliseconds, ",")

---------------------------------------------------------------------------
(* Block lines: the range (lib.rs 419-453, 705-739), the VTT header line   *)
(* (375-417) and the SRT text line (741-759)                               *)

ARROW == <<"-", "-", ">">>

\* range_timestamps without the test of the middle word
range_timestamps_any_arrow(s, sep) ==
    LET words == split(s, " ")
    IN  IF Len(words) = 3
        THEN LET start == block_timestamp(words[1], sep)
                 end == block_timestamp(words[3], sep)
             IN  IF start.result # "Ok" THEN start
                 ELSE IF end.result # "Ok" THEN end
                 ELSE Ok(<<start.value, end.value>>)
        ELSE Err("InvalidTimestamp", s)

\* VttParser::block_header_timestamps and SrtParser::block_timestamps, which
\* differ in the timestamp parser they call only; "?" hands on the error (or
\* the panic) of the first timestamp that fails
range_timestamps(s, sep) ==
    LET words == split(s, " ")
    IN  IF Len(words) = 3
        THEN IF words[2] = ARROW
             THEN LET start == block_timestamp(words[1], sep)
                      end == block_timestamp(words[3], sep)
                  IN  IF start.result # "Ok" THEN start
                      ELSE IF end.result # "Ok" THEN end
                      ELSE Ok(<<start.value, end.value>>)
             ELSE Err("InvalidTimestamp", s)
        ELSE Err("InvalidTimestamp", s)

VttParser_block_header_timestamps(s) == range_timestamps(s, ".")

SrtParser_block_timestamps(s) == range_timestamps(s, ",")

\* the value of VttParser::block_header: (speaker, start, end)
HeaderParts(speaker, times) ==
    [speaker |-> speaker, start |-> times[1], end |-> times[2]]

\* block_header without the test for the space before the first digit
VttParser_block_header_no_space_test(s) ==
    IF Len(s) = 0 THEN Err("UnexpectedEndOfFile", <<>>)
    ELSE IF IsDigit(s[1])
    THEN LET r == VttParser_block_header_timestamps(s)
         IN  IF r.result = "Ok" THEN Ok(HeaderParts(None, r.value)) ELSE r
    ELSE LET first == find_numeric(s)
         IN  IF first = None THEN Err("BlockHeaderInvalid", s)
             ELSE LET first_loc == first[1]
                      name == get_range(s, 0, first_loc - 1)
                      rest == get_range(s, first_loc, Len(s))
                      r == VttParser_block_header_timestamps(rest[1])
                  IN  IF r.result = "Ok"
                      THEN Ok(HeaderParts(Some(name[1]), r.value))
                      ELSE r

\* lib.rs 375-417
VttParser_block_header(s) ==
    IF Len(s) = 0 THEN Err("UnexpectedEndOfFile", <<>>)
    ELSE IF IsDigit(s[1])
    THEN LET r == VttParser_block_header_timestamps(s)
         IN  IF r.result = "Ok" THEN Ok(HeaderParts(None, r.value)) ELSE r
    ELSE LET first == find_numeric(s)
         IN  IF first = None THEN Err("BlockHeaderInvalid", s)
             ELSE LET first_loc == first[1]
                      before == get_range(s, first_loc - 1, first_loc)
                      name == get_range(s, 0, first_loc - 1)
                      rest == get_range(s, first_loc, Len(s))
                  IN  IF before # Some(<<" ">>) THEN Err("BlockHeaderInvalid", s)
                      ELSE IF name = None THEN Err("BlockHeaderInvalid", s)
                      ELSE IF rest = None THEN Err("BlockHeaderInvalid", s)
                      ELSE LET r == VttParser_block_header_timestamps(rest[1])
                           IN  IF r.result = "Ok"
                               THEN Ok(HeaderParts(Some(name[1]), r.value))
                               ELSE r

\* lib.rs 454-457
VttParser_block_text(s) == s

\* the value of SrtParser::block_text: (speaker, text)
TextParts(speaker, text) == [speaker |-> speaker, text |-> text]

\* lib.rs 741-759: unwrap() panics when get() finds the range out of the line
SrtParser_block_text(s) ==
    LET p0 == position_of(s, "[")
        p1 == position_of(s, "]")
    IN  IF p0 # None
        THEN IF p0[1] # 0 THEN Err("InvalidSpeakerPlacement", s)
             ELSE IF p1 # None
             THEN LET n0 == p0[1]
                      n1 == p1[1]
                      speaker == get_range(s, n0 + 1, n1)
                      text == get_range(s, n1 + 2, Len(s))
                  IN  IF speaker = None THEN Panicked
                      ELSE IF text = None THEN Panicked
                      ELSE Ok(TextParts(Some(speaker[1]), text[1]))
             ELSE Err("InvalidSpeakerPlacement", s)
        ELSE Ok(TextParts(None, s))

---------------------------------------------------------------------------
(* Files: the parsers (lib.rs 212-311, 572-641) and the writers (506-549,  *)
(* 814-848)                                                                *)

WEBVTT == <<"W", "E", "B", "V", "T", "T">>

NL == <<"\n">>

\* lib.rs 305-311
VttParser_block_number(s) ==
    IF parse_usize(s).result = "Ok" THEN parse_usize(s)
    ELSE Err("ExpectedBlockNumber", s)

\* lib.rs 635-641
SrtParser_block_number(s) ==
    IF parse_usize(s).result = "Ok" THEN parse_usize(s)
    ELSE Err("ExpectedBlockNumber", s)

\* lib.rs 276-303: the block is built from its fields as they were parsed
VttParser_block(s) ==
    LET ls == lines(s)
    IN  IF Len(ls) # 4 THEN Err("UnexpectedEndOfFile", <<>>)
        ELSE IF ls[1] # <<>> THEN Err("ExpectedBlankLine", ls[1])
        ELSE LET number == VttParser_block_number(ls[2])
                 header == VttParser_block_header(ls[3])
             IN  IF number.result # "Ok" THEN number
                 ELSE IF header.result # "Ok" THEN header
                 ELSE Ok(CaptionBlock(header.value.speaker, header.value.start,
                                      header.value.end, VttParser_block_text(ls[4])))

\* lib.rs 606-633
SrtParser_block(s) ==
    LET ls == lines(s)
    IN  IF Len(ls) # 4 THEN Err("UnexpectedEndOfFile", <<>>)
        ELSE IF ls[1] # <<>> THEN Err("ExpectedBlankLine", ls[1])
        ELSE LET number == SrtParser_block_number(ls[2])
                 times == SrtParser_block_timestamps(ls[3])
                 text == SrtParser_block_text(ls[4])
             IN  IF number.result # "Ok" THEN number
                 ELSE IF times.result # "Ok" THEN times
                 ELSE IF text.result # "Ok" THEN text
                 ELSE Ok(CaptionBlock(text.value.speaker, times.value[1],
                                      times.value[2], text.value.text))

\* VttParser::header taking the marker within the first two lines as no
\* header, and one line before the marker as what separates the header from it
VttParser_header_one_blank(s) ==
    LET ls == lines(s)
    IN  IF \A i \in 1..Len(ls) : ls[i] # WEBVTT
        THEN Err("UnexpectedEndOfFile", <<>>)
        ELSE LET n == (CHOOSE i \in 1..Len(ls) :
                          ls[i] = WEBVTT /\ \A j \in 1..(i - 1) : ls[j] # WEBVTT) - 1
             IN  IF n <= 1 THEN Ok(<<None, n>>)
                 ELSE Ok(<<Some(join(SubSeq(ls, 1, n - 1), NL)), n>>)

\* lib.rs 253-274: n is the index (from 0) of the first line "WEBVTT"
VttParser_header(s) ==
    LET ls == lines(s)
    IN  IF \A i \in 1..Len(ls) : ls[i] # WEBVTT
        THEN Err("UnexpectedEndOfFile", <<>>)
        ELSE LET n == (CHOOSE i \in 1..Len(ls) :
                          ls[i] = WEBVTT /\ \A j \in 1..(i - 1) : ls[j] # WEBVTT) - 1
             IN  IF n <= 2 THEN Ok(<<None, n>>)
                 ELSE Ok(<<Some(join(SubSeq(ls, 1, n - 2), NL)), n>>)

\* the loops pushing each block at the front of the blocks
RECURSIVE parse_blocks_reversed(_, _)
parse_blocks_reversed(ls, vtt) ==
    IF Len(ls) < 4 THEN Ok(<<>>)
    ELSE LET current_block == join(SubSeq(ls, 1, 4), NL)
             b == IF vtt THEN VttParser_block(current_block)
                  ELSE SrtParser_block(current_block)
         IN  IF b.result # "Ok" THEN b
             ELSE LET rest == parse_blocks_reversed(SubSeq(ls, 5, Len(ls)), vtt)
                  IN  IF rest.result # "Ok" THEN rest
                      ELSE Ok(rest.value \o <<b.value>>)

\* the loops of lib.rs 232-243 and 587-596 over groups of four lines, each
\* joined with "\n" and handed to block; "?" stops at the first failure
RECURSIVE parse_blocks(_, _)
parse_blocks(ls, vtt) ==
    IF Len(ls) < 4 THEN Ok(<<>>)
    ELSE LET current_block == join(SubSeq(ls, 1, 4), NL)
             b == IF vtt THEN VttParser_block(current_block)
                  ELSE SrtParser_block(current_block)
         IN  IF b.result # "Ok" THEN b
             ELSE LET rest == parse_blocks(SubSeq(ls, 5, Len(ls)), vtt)
                  IN  IF rest.result # "Ok" THEN rest
                      ELSE Ok(<<b.value>> \o rest.value)

\* lib.rs 212-251
VttParser_parse(contents) ==
    LET h == VttParser_header(contents)
        ls == lines(contents)
    IN  IF h.result # "Ok" THEN h
        ELSE LET start_line == h.value[2] + 1
                 total_lines == Len(ls)
             IN  IF (total_lines - start_line) % 4 # 0
                 THEN Err("UnexpectedEndOfFile", <<>>)
                 ELSE LET blocks == parse_blocks(SubSeq(ls, start_line + 1, total_lines),
                                                 TRUE)
                      IN  IF blocks.result # "Ok" THEN blocks
                          ELSE Ok(Caption(h.value[1], blocks.value))

\* lib.rs 572-604
SrtParser_parse(contents) ==
    LET ls == lines(NL \o contents)
    IN  IF Len(ls) % 4 # 0 THEN Err("UnexpectedEndOfFile", <<>>)
        ELSE LET blocks == parse_blocks(ls, FALSE)
             IN  IF blocks.result # "Ok" THEN blocks
                 ELSE Ok(Caption(None, blocks.value))

\* lib.rs 543-549
VttWriter_header(cap) ==
    IF cap.header # None THEN cap.header[1] \o NL \o NL \o WEBVTT \o NL
    ELSE WEBVTT \o NL

\* lib.rs 517-531
VttWriter_block(cb, n) ==
    LET ts_start == VttWriter_timestamp(cb.start)
        ts_end == VttWriter_timestamp(cb.end)
        range == ts_start \o <<" ">> \o ARROW \o <<" ">> \o ts_end
    IN  to_string(n) \o NL
        \o (IF cb.speaker # None THEN cb.speaker[1] \o <<" ">> \o range ELSE range)
        \o NL \o cb.text \o NL

\* VttWriter::write with block_num starting at 0
VttWriter_write_from_zero(cap) ==
    join(<<VttWriter_header(cap)>>
         \o [i \in 1..Len(cap.blocks) |-> VttWriter_block(cap.blocks[i], i - 1)], NL)

\* lib.rs 506-516
VttWriter_write(cap) ==
    join(<<VttWriter_header(cap)>>
         \o [i \in 1..Len(cap.blocks) |-> VttWriter_block(cap.blocks[i], i)], NL)

\* lib.rs 824-838
SrtWriter_block(cb, n) ==
    LET ts_start == SrtWriter_timestamp(cb.start)
        ts_end == SrtWriter_timestamp(cb.end)
    IN  to_string(n) \o NL
        \o ts_start \o <<" ">> \o ARROW \o <<" ">> \o ts_end \o NL
        \o (IF cb.speaker # None
            THEN <<"[">> \o cb.speaker[1] \o <<"]", " ">> \o cb.text
            ELSE cb.text)
        \o NL

\* lib.rs 814-823
SrtWriter_write(cap) ==
    join([i \in 1..Len(cap.blocks) |-> SrtWriter_block(cap.blocks[i], i)], NL)

---------------------------------------------------------------------------
(* Dispatch on the extension of a path, lib.rs 144-172 *)

\* Path::file_name: what follows the last "/", unless it is empty, "." or ".."
\* (no path offered ends in "/")
file_name(fname) ==
    LET slashes == { i \in 1..Len(fname) : fname[i] = "/" }
        last == IF slashes = {} THEN 0
                ELSE CHOOSE i \in slashes : \A j \in slashes : j <= i
        name == SubSeq(fname, last + 1, Len(fname))
    IN  IF name \in { <<>>, <<".">>, <<".", ".">> } THEN None ELSE Some(name)

\* Path::extension: what follows the last "." of the file name, unless the
\* name has no "." or only the one it starts with
extension(fname) ==
    LET name == file_name(fname)
    IN  IF name = None THEN None
        ELSE LET dots == { i \in 1..Len(name[1]) : name[1][i] = "." }
             IN  IF dots = {} THEN None
                 ELSE LET d == CHOOSE i \in dots : \A j \in dots : j <= i
                      IN  IF d = 1 THEN None
                          ELSE Some(SubSeq(name[1], d + 1, Len(name[1])))

VTT == <<"v", "t", "t">>

TXT == <<"t", "x", "t">>

SRT == <<"s", "r", "t">>

\* the result r of an operation that invoked these parsers or writers
Dispatched(r, invoked) ==
    [result |-> r.result, value |-> r.value, calls |-> invoked]

\* lib.rs 206-210; read is what fs::read_to_string(fname) gives, None for an
\* I/O error
VttParser_from_file(read) ==
    IF read = None THEN Err("IoError", <<>>) ELSE VttParser_parse(read[1])

\* lib.rs 566-570
SrtParser_from_file(read) ==
    IF read = None THEN Err("IoError", <<>>) ELSE SrtParser_parse(read[1])

\* parse_file sending "txt" to UnsupportedFileType
parse_file_no_txt(fname, read) ==
    LET ext == extension(fname)
    IN  IF ext = None THEN Dispatched(Err("UnknownExtension", fname), <<>>)
        ELSE IF ext[1] = VTT
        THEN Dispatched(VttParser_from_file(read), <<"VttParser::from_file">>)
        ELSE IF ext[1] = SRT
        THEN Dispatched(SrtParser_from_file(read), <<"SrtParser::from_file">>)
        ELSE Dispatched(Err("UnsupportedFileType", ext[1]), <<>>)

\* lib.rs 144-155
parse_file(fname, read) ==
    LET ext == extension(fname)
    IN  IF ext = None THEN Dispatched(Err("UnknownExtension", fname), <<>>)
        ELSE IF ext[1] \in {VTT, TXT}
        THEN Dispatched(VttParser_from_file(read), <<"VttParser::from_file">>)
        ELSE IF ext[1] = SRT
        THEN Dispatched(SrtParser_from_file(read), <<"SrtParser::from_file">>)
        ELSE Dispatched(Err("UnsupportedFileType", ext[1]), <<>>)

\* the result of writing text to fname; written tells whether fs::write
\* succeeded
file_written(fs, fname, text, written) ==
    IF written
    THEN [result |-> "Ok", value |-> <<>>, files |-> [fs EXCEPT ![fname] = Some(text)]]
    ELSE [result |-> "IoError", value |-> <<>>, files |-> fs]

\* lib.rs 501-504
VttWriter_to_file(fs, fname, cap, written) ==
    file_written(fs, fname, VttWriter_write(cap), written)

\* lib.rs 809-812
SrtWriter_to_file(fs, fname, cap, written) ==
    file_written(fs, fname, SrtWriter_write(cap), written)

\* the result r of a write_caption that invoked these writers
DispatchedWrite(r, invoked) ==
    [result |-> r.result, value |-> r.value, calls |-> invoked, files |-> r.files]

\* a write that wrote nothing
NotWritten(fs, e, payload) == [result |-> e, value |-> payload, files |-> fs]

\* lib.rs 158-172
write_caption(fs, fname, cap, written) ==
    LET ext == extension(fname)
    IN  IF ext = None
        THEN DispatchedWrite(NotWritten(fs, "UnknownExtension", fname), <<>>)
        ELSE IF ext[1] \in {VTT, TXT}
        THEN DispatchedWrite(VttWriter_to_file(fs, fname, cap, written),
                             <<"VttWriter::to_file">>)
        ELSE IF ext[1] = SRT
        THEN DispatchedWrite(SrtWriter_to_file(fs, fname, cap, written),
                             <<"SrtWriter::to_file">>)
        ELSE DispatchedWrite(NotWritten(fs, "UnsupportedFileType", fname), <<>>)

---------------------------------------------------------------------------
(* Documents offered to the Caption operations *)

\* blocks as in the tests of lib.rs 1039-1073 and 1093-1098, and one whose end
\* precedes its start, which the parsers' struct literals (lib.rs 297-302) admit
Blocks ==
    { CaptionBlock(None, from_milliseconds(0), from_milliseconds(1000),
                   "John Dies at the End"),
      CaptionBlock(None, from_milliseconds(1200), from_milliseconds(2400),
                   "Seriously."),
      CaptionBlock(Some("Pete Molfese"), from_milliseconds(59999),
                   from_milliseconds(3599000), "Hello, world!"),
      CaptionBlock(Some("Pete Molfese"), from_milliseconds(2000),
                   from_milliseconds(1000), "Go read the book!") }

Headers == {None, Some("Title")}

BlockSeqs(pool, n) == UNION { [1 .. k -> pool] : k \in 0 .. n }

Documents == { Caption(h, bs) : h \in Headers, bs \in BlockSeqs(Blocks, MaxBlocks) }

CaptionOffsets == { k * u : k \in (-MaxOffset) .. MaxOffset, u \in {1, MILLIS_PER_SECOND} }

RECURSIVE TotalBlocks(_)
TotalBlocks(caps) ==
    IF caps = <<>> THEN 0 ELSE Len(Head(caps).blocks) + TotalBlocks(Tail(caps))

---------------------------------------------------------------------------
(* The Caption machine: a document is offset and queried, repeatedly *)

CaptionInit ==
    /\ st = from_milliseconds(0)
    /\ old_st = from_milliseconds(0)
    /\ caption \in Documents
    /\ old_caption = caption
    /\ captions = <<>>
    /\ op = "init"
    /\ arg = 0
    /\ res = "Ok"
    /\ steps = 0
    /\ out = <<>>
    /\ files = NoFiles
    /\ calls = <<>>

\* caption.offset_milliseconds(n)
CaptionOffset ==
    /\ res # "panic"
    /\ steps < MaxSteps
    /\ \E n \in CaptionOffsets :
        LET r == Caption_offset_milliseconds(caption, n)
        IN  /\ op' = "offset_milliseconds"
            /\ arg' = n
            /\ old_caption' = caption
            /\ res' = r.result
            /\ caption' = r.self
            /\ steps' = steps + 1
    /\ out' = <<>>
    /\ UNCHANGED <<st, old_st, captions, files, calls>>

\* caption.time_head()
TimeHead ==
    /\ res # "panic"
    /\ LET r == time_head(caption)
       IN  /\ res' = IF r.panic THEN "panic" ELSE "Ok"
           /\ out' = IF r.panic THEN <<>> ELSE r.value
    /\ op' = "time_head"
    /\ arg' = 0
    /\ old_caption' = caption
    /\ UNCHANGED <<st, old_st, caption, captions, steps, files, calls>>

\* caption.time_tail()
TimeTail ==
    /\ res # "panic"
    /\ LET r == time_tail(caption)
       IN  /\ res' = IF r.panic THEN "panic" ELSE "Ok"
           /\ out' = IF r.panic THEN <<>> ELSE r.value
    /\ op' = "time_tail"
    /\ arg' = 0
    /\ old_caption' = caption
    /\ UNCHANGED <<st, old_st, caption, captions, steps, files, calls>>

CaptionNext == CaptionOffset \/ TimeHead \/ TimeTail

CaptionSpec == CaptionInit /\ [][CaptionNext]_vars

---------------------------------------------------------------------------
(* The CaptionBlock machine: a block is constructed, then offset *)

BlockTimeInputs ==
    { from_milliseconds(m) :
        m \in {0, 1, 999, 1000, 59999, 60000, 3599999, MaxHours * MILLIS_PER_HOUR} }

\* CaptionBlock::from(speaker, start, end, text)
BlockFrom ==
    /\ op = "init"
    /\ \E speaker \in {None, Some("Pete Molfese")}, start \in BlockTimeInputs,
          end \in BlockTimeInputs, text \in {"", "Hello!"} :
        LET r == CaptionBlock_from(speaker, start, end, text)
        IN  /\ arg' = CaptionBlock(speaker, start, end, text)
            /\ res' = r.result
            /\ out' = r.value
    /\ op' = "from"
    /\ UNCHANGED <<st, old_st, caption, old_caption, captions, steps, files, calls>>

\* block.offset_milliseconds(n), on a block that was constructed
BlockOffset ==
    /\ op = "from"
    /\ res = "Ok"
    /\ \E n \in CaptionOffsets :
        LET r == CaptionBlock_offset_milliseconds(out, n)
        IN  /\ arg' = <<out, n>>
            /\ res' = r.result
            /\ out' = r.self
    /\ op' = "offset_milliseconds"
    /\ UNCHANGED <<st, old_st, caption, old_caption, captions, steps, files, calls>>

BlockNext == BlockFrom \/ BlockOffset

BlockSpec == Init /\ [][BlockNext]_vars

---------------------------------------------------------------------------
(* The concatenation machine: documents are collected, then concatenated *)

ConcatInit == Init

\* captions.push(..), main.rs 147-149; the collected documents hold at most
\* MaxBlocks + 2 blocks in all
Push ==
    /\ op \in {"init", "push"}
    /\ Len(captions) < MaxDocs
    /\ \E c \in Documents :
        /\ TotalBlocks(captions) + Len(c.blocks) <= MaxBlocks + 2
        /\ captions' = Append(captions, c)
        /\ arg' = c
    /\ op' = "push"
    /\ UNCHANGED <<st, old_st, caption, old_caption, res, steps, out, files, calls>>

\* Caption::concatenate(captions)
Concatenate ==
    /\ op \in {"init", "push"}
    /\ LET r == concatenate(captions)
       IN  /\ res' = IF r = Panic THEN "panic" ELSE "Ok"
           /\ caption' = IF r = Panic THEN caption ELSE r
    /\ op' = "concatenate"
    /\ arg' = captions
    /\ old_caption' = caption
    /\ UNCHANGED <<st, old_st, captions, steps, out, files, calls>>

ConcatNext == Push \/ Concatenate

ConcatSpec == ConcatInit /\ [][ConcatNext]_vars

---------------------------------------------------------------------------
(* The line parsers' machine: one parser is applied to one line *)

\* the parts of the timestamps offered: in range, and one step out of it
TokenParts ==
    { <<0, 0, 0, 0>>, <<0, 0, 1, 1>>, <<1, 2, 3, 450>>, <<12, 59, 59, 998>>,
      <<0, 60, 0, 0>>, <<0, 0, 60, 0>>, <<0, 0, 0, 999>>, <<100, 0, 0, 0>> }

TokenChars == {":", ".", ",", "x", "+", "7"}

\* written timestamps, and each of them with one character replaced, with
\* its end cut off, and with one character more
TokenInputs(sep) ==
    LET base == { timestamp_text(p[1], p[2], p[3], p[4], sep) : p \in TokenParts }
    IN  base
        \cup UNION { { [b EXCEPT ![i] = c] : i \in 1..Len(b), c \in TokenChars } :
                     b \in base }
        \cup UNION { { SubSeq(b, 1, n) : n \in 0..(Len(b) - 1) } : b \in base }
        \cup { b \o <<"0">> : b \in base }

\* the words a range line is made of
RangeWords(sep) ==
    { timestamp_text(0, 0, 0, 0, sep), timestamp_text(0, 0, 1, 1, sep),
      timestamp_text(0, 60, 0, 0, sep), <<"0", "0", ":", "0", "1">>,
      ARROW, <<"-", ">">>, <<>> }

\* up to four words joined with single spaces; an empty word gives a leading,
\* trailing or doubled space
RangeInputs(sep) ==
    { join(ws, <<" ">>) : ws \in UNION { [1..n -> RangeWords(sep)] : n \in 0..4 } }

SpeakerPrefixes ==
    { <<>>, <<"P", "e", "t", "e", " ">>, <<"P", "e", "t", "e">>,
      <<"P", "e", "t", "e", " ", "M", " ">>, <<"P", "e", "t", "e", " ", " ">>,
      <<"R", "2", " ">>, <<" ">>, <<"P", ":", " ">> }

\* a speaker prefix, or none, before a range line or before no digit at all
HeaderLineInputs ==
    { p \o r : p \in SpeakerPrefixes,
               r \in { join(ws, <<" ">>) : ws \in [1..3 -> RangeWords(".")] }
                     \cup { <<>>, <<"x">>, ARROW } }

TextPieces == { <<"[">>, <<"]">>, <<" ">>, <<"P">>, <<"H", "i">> }

\* up to four pieces, one after the other
TextLineInputs ==
    { join(ps, <<>>) : ps \in UNION { [1..n -> TextPieces] : n \in 0..4 } }


\* the call ends with the result r
Returns(r) ==
    /\ res' = r.result
    /\ out' = r.value

VttBlockTimestamp ==
    /\ op = "init"
    /\ \E s \in TokenInputs(".") \cup TokenInputs(",") :
        /\ arg' = s
        /\ Returns(VttParser_block_timestamp(s))
    /\ op' = "VttParser::block_timestamp"
    /\ UNCHANGED <<st, old_st, caption, old_caption, captions, steps, files, calls>>

SrtBlockTimestamp ==
    /\ op = "init"
    /\ \E s \in TokenInputs(".") \cup TokenInputs(",") :
        /\ arg' = s
        /\ Returns(SrtParser_block_timestamp(s))
    /\ op' = "SrtParser::block_timestamp"
    /\ UNCHANGED <<st, old_st, caption, old_caption, captions, steps, files, calls>>

VttBlockHeaderTimestamps ==
    /\ op = "init"
    /\ \E s \in RangeInputs(".") :
        /\ arg' = s
        /\ Returns(VttParser_block_header_timestamps(s))
    /\ op' = "VttParser::block_header_timestamps"
    /\ UNCHANGED <<st, old_st, caption, old_caption, captions, steps, files, calls>>

SrtBlockTimestamps ==
    /\ op = "init"
    /\ \E s \in RangeInputs(",") :
        /\ arg' = s
        /\ Returns(SrtParser_block_timestamps(s))
    /\ op' = "SrtParser::block_timestamps"
    /\ UNCHANGED <<st, old_st, caption, old_caption, captions, steps, files, calls>>

VttBlockHeader ==
    /\ op = "init"
    /\ \E s \in HeaderLineInputs :
        /\ arg' = s
        /\ Returns(VttParser_block_header(s))
    /\ op' = "VttParser::block_header"
    /\ UNCHANGED <<st, old_st, caption, old_caption, captions, steps, files, calls>>

SrtBlockText ==
    /\ op = "init"
    /\ \E s \in TextLineInputs :
        /\ arg' = s
        /\ Returns(SrtParser_block_text(s))
    /\ op' = "SrtParser::block_text"
    /\ UNCHANGED <<st, old_st, caption, old_caption, captions, steps, files, calls>>

\* groups of lines as parse hands them to block: a first line blank or not,
\* a number or none, a range or none, a text or none; and shorter groups
BlockGroups(sep) ==
    LET good == timestamp_text(0, 0, 0, 0, sep) \o <<" ">> \o ARROW \o <<" ">>
                \o timestamp_text(0, 0, 1, 1, sep)
    IN  { <<first, number, header, text>> :
            first \in { <<>>, <<"x">> },
            number \in { <<"1">>, <<"7">>, <<"+", "1">>, <<"-", "1">>, <<"x">>, <<>> },
            header \in { good, <<>> },
            text \in { <<"H", "i">>, <<>> } }
        \cup { <<>>, << <<>>, <<"1">>, good >>, << <<"x">>, <<"1">> >> }

\* the group joined with "\n" (lib.rs 236-241, 589-594) was handed to
\* VttParser::block, which ended with the result r
VttBlockParsed(group, r) ==
    /\ op = "init"
    /\ op' = "VttParser::block"
    /\ arg' = group
    /\ Returns(r)
    /\ UNCHANGED <<st, old_st, caption, old_caption, captions, steps, files, calls>>

VttBlock ==
    \E group \in BlockGroups(".") :
        VttBlockParsed(group, VttParser_block(join(group, NL)))

\* the same for SrtParser::block
SrtBlockParsed(group, r) ==
    /\ op = "init"
    /\ op' = "SrtParser::block"
    /\ arg' = group
    /\ Returns(r)
    /\ UNCHANGED <<st, old_st, caption, old_caption, captions, steps, files, calls>>

SrtBlock ==
    \E group \in BlockGroups(",") :
        SrtBlockParsed(group, SrtParser_block(join(group, NL)))

GrammarNext ==
    \/ VttBlock
    \/ SrtBlock
    \/ VttBlockTimestamp
    \/ SrtBlockTimestamp
    \/ VttBlockHeaderTimestamps
    \/ SrtBlockTimestamps
    \/ VttBlockHeader
    \/ SrtBlockText

GrammarSpec == Init /\ [][GrammarNext]_vars

---------------------------------------------------------------------------
(* The round-trip machine: a document is written, and the text is parsed *)

RtSpeakers == {None, Some(<<"P", " ", "M">>)}

\* pairs of a start and an end not before it, as total milliseconds
RtTimePairs == {<<0, 1001>>, <<999, 1001>>, <<1001, 1001>>}

RtTexts == {<<>>, <<"H", "i">>}

RtBlocks ==
    { CaptionBlock(speaker, from_milliseconds(t[1]), from_milliseconds(t[2]), text) :
        speaker \in RtSpeakers, t \in RtTimePairs, text \in RtTexts }

\* no header, a header of one line, a header of two lines
RtHeaders == {None, Some(<<"T">>), Some(<<"a", "\n", "b">>)}

\* the documents of at most two blocks
RtDocuments ==
    { Caption(header, blocks) :
        header \in RtHeaders,
        blocks \in UNION { [1..n -> RtBlocks] : n \in 0..2 } }

RoundTripInit ==
    /\ st = from_milliseconds(0)
    /\ old_st = from_milliseconds(0)
    /\ caption \in RtDocuments
    /\ old_caption = NoCaption
    /\ captions = <<>>
    /\ op = "init"
    /\ arg = 0
    /\ res = "Ok"
    /\ steps = 0
    /\ out = <<>>
    /\ files = NoFiles
    /\ calls = <<>>

\* VttWriter::write(&caption)
VttWrite ==
    /\ op = "init"
    /\ op' = "VttWriter::write"
    /\ arg' = caption
    /\ out' = VttWriter_write(caption)
    /\ UNCHANGED <<st, old_st, caption, old_caption, captions, res, steps, files,
                   calls>>

\* SrtWriter::write(&caption)
SrtWrite ==
    /\ op = "init"
    /\ op' = "SrtWriter::write"
    /\ arg' = caption
    /\ out' = SrtWriter_write(caption)
    /\ UNCHANGED <<st, old_st, caption, old_caption, captions, res, steps, files,
                   calls>>

\* VttParser::parse of the text written ended with the result r
VttParsedWritten(text, r) ==
    /\ op = "VttWriter::write"
    /\ out = text
    /\ op' = "VttParser::parse"
    /\ arg' = text
    /\ Returns(r)
    /\ UNCHANGED <<st, old_st, caption, old_caption, captions, steps, files, calls>>

VttParseWritten ==
    \E text \in { VttWriter_write(d) : d \in RtDocuments } :
        VttParsedWritten(text, VttParser_parse(text))

\* SrtParser::parse of the text written ended with the result r
SrtParsedWritten(text, r) ==
    /\ op = "SrtWriter::write"
    /\ out = text
    /\ op' = "SrtParser::parse"
    /\ arg' = text
    /\ Returns(r)
    /\ UNCHANGED <<st, old_st, caption, old_caption, captions, steps, files, calls>>

SrtParseWritten ==
    \E text \in { SrtWriter_write(d) : d \in RtDocuments } :
        SrtParsedWritten(text, SrtParser_parse(text))

RoundTripNext == VttWrite \/ SrtWrite \/ VttParseWritten \/ SrtParseWritten

RoundTripSpec == RoundTripInit /\ [][RoundTripNext]_vars

---------------------------------------------------------------------------
(* The parsing machine: a text is parsed, and the document it gave is      *)
(* offset and concatenated with itself                                     *)

range_text(start, end, sep) ==
    timestamp_text(start[1], start[2], start[3], start[4], sep)
    \o <<" ">> \o ARROW \o <<" ">>
    \o timestamp_text(end[1], end[2], end[3], end[4], sep)

\* ranges: in order, end before start, minutes of 60, milliseconds of 999
RangeLines(sep) ==
    { range_text(<<0, 0, 0, 0>>, <<0, 0, 1, 1>>, sep),
      range_text(<<0, 0, 2, 0>>, <<0, 0, 1, 1>>, sep),
      range_text(<<0, 60, 0, 0>>, <<0, 61, 0, 0>>, sep),
      range_text(<<0, 0, 0, 0>>, <<0, 0, 0, 999>>, sep) }

VttHeaderLines ==
    RangeLines(".")
    \cup { <<"P", " ", "M", " ">> \o range_text(<<0, 0, 0, 0>>, <<0, 0, 1, 1>>, "."),
           <<>> }

SrtHeaderLines == RangeLines(",") \cup { <<>> }

TextLines ==
    { <<"H", "i">>, <<>>, <<"[", "P", "]">>, <<"[", "P", "]", " ", "H", "i">> }

\* groups of lines: blank line, number, header line and text line, and groups
\* with another number, the marker as text, a first line not blank, no
\* number, a line missing
LineGroups(header_lines, sep) ==
    LET good == range_text(<<0, 0, 0, 0>>, <<0, 0, 1, 1>>, sep)
    IN  { << <<>>, <<"1">>, h, t >> : h \in header_lines, t \in TextLines }
        \cup { << <<>>, <<"7">>, good, <<"H", "i">> >>,
               << <<>>, <<"1">>, good, WEBVTT >>,
               << <<"x">>, <<"1">>, good, <<"H", "i">> >>,
               << <<>>, <<"x">>, good, <<"H", "i">> >>,
               << <<>>, <<"1">>, good >> }

\* the lines of at most two groups, one after the other
RECURSIVE Flatten(_)
Flatten(groups) ==
    IF groups = <<>> THEN <<>> ELSE groups[1] \o Flatten(Tail(groups))

GroupLines(header_lines, sep) ==
    { Flatten(gs) : gs \in UNION { [1..n -> LineGroups(header_lines, sep)] : n \in 0..2 } }

\* what stands before the first block: nothing, the marker, the marker after
\* a header and one or two blank lines, the marker after a line that has the
\* marker and a space
VttPreambles ==
    { <<>>, <<WEBVTT>>, << <<>>, WEBVTT >>, << <<"T">>, <<>>, WEBVTT >>,
      << <<"T">>, <<>>, <<>>, WEBVTT >>, << <<"a">>, <<"b">>, <<>>, <<>>, WEBVTT >>,
      << WEBVTT \o <<" ">>, <<>>, <<>>, WEBVTT >> }

\* with and without a line feed at the end
VttTexts ==
    { join(pre \o ls, NL) \o end :
        pre \in VttPreambles, ls \in GroupLines(VttHeaderLines, "."),
        end \in {<<>>, NL} }

\* the first blank line is the one the parser puts before the text
SrtTexts ==
    { join(IF ls # <<>> /\ ls[1] = <<>> THEN Tail(ls) ELSE ls, NL) \o end :
        ls \in GroupLines(SrtHeaderLines, ","), end \in {<<>>, NL} }

\* the call ends with the result r, and the document it gave is kept
ReturnsCaption(r) ==
    /\ Returns(r)
    /\ caption' = IF r.result = "Ok" THEN r.value ELSE caption

\* VttParser::parse(text) ended with the result r
VttParsed(text, r) ==
    /\ op = "init"
    /\ op' = "VttParser::parse"
    /\ arg' = text
    /\ ReturnsCaption(r)
    /\ UNCHANGED <<st, old_st, old_caption, captions, steps, files, calls>>

VttParse == \E text \in VttTexts : VttParsed(text, VttParser_parse(text))

\* SrtParser::parse(text) ended with the result r
SrtParsed(text, r) ==
    /\ op = "init"
    /\ op' = "SrtParser::parse"
    /\ arg' = text
    /\ ReturnsCaption(r)
    /\ UNCHANGED <<st, old_st, old_caption, captions, steps, files, calls>>

SrtParse == \E text \in SrtTexts : SrtParsed(text, SrtParser_parse(text))

\* the offsets applied to a parsed document: back and forth by a second, and
\* forth by a millisecond
ParsedOffsets == {-MILLIS_PER_SECOND, 1, MILLIS_PER_SECOND}

\* caption.offset_milliseconds(n), after a parse and operations that succeeded
OffsetParsed ==
    /\ op \notin {"init", "VttWriter::write", "SrtWriter::write"}
    /\ res = "Ok"
    /\ steps < MaxSteps
    /\ \E n \in ParsedOffsets :
        LET r == Caption_offset_milliseconds(caption, n)
        IN  /\ arg' = n
            /\ res' = r.result
            /\ caption' = r.self
    /\ op' = "offset_milliseconds"
    /\ old_caption' = caption
    /\ steps' = steps + 1
    /\ out' = <<>>
    /\ UNCHANGED <<st, old_st, captions, files, calls>>

\* Caption::concatenate(vec![caption, caption])
ConcatenateParsed ==
    /\ op \notin {"init", "VttWriter::write", "SrtWriter::write"}
    /\ res = "Ok"
    /\ steps < MaxSteps
    /\ Len(caption.blocks) <= MaxBlocks
    /\ LET r == concatenate(<<caption, caption>>)
       IN  /\ res' = IF r = Panic THEN "panic" ELSE "Ok"
           /\ caption' = IF r = Panic THEN caption ELSE r
    /\ op' = "concatenate"
    /\ arg' = <<caption, caption>>
    /\ old_caption' = caption
    /\ steps' = steps + 1
    /\ out' = <<>>
    /\ UNCHANGED <<st, old_st, captions, files, calls>>

\* VttWriter::write(&caption), which ends the run
VttWriteParsed ==
    /\ op \notin {"init", "VttWriter::write", "SrtWriter::write"}
    /\ res = "Ok"
    /\ op' = "VttWriter::write"
    /\ arg' = caption
    /\ out' = VttWriter_write(caption)
    /\ UNCHANGED <<st, old_st, caption, old_caption, captions, res, steps, files,
                   calls>>

\* SrtWriter::write(&caption), which ends the run
SrtWriteParsed ==
    /\ op \notin {"init", "VttWriter::write", "SrtWriter::write"}
    /\ res = "Ok"
    /\ op' = "SrtWriter::write"
    /\ arg' = caption
    /\ out' = SrtWriter_write(caption)
    /\ UNCHANGED <<st, old_st, caption, old_caption, captions, res, steps, files,
                   calls>>

ParseNext ==
    \/ VttParse
    \/ SrtParse
    \/ OffsetParsed
    \/ ConcatenateParsed
    \/ VttWriteParsed
    \/ SrtWriteParsed

ParseSpec == Init /\ [][ParseNext]_vars

---------------------------------------------------------------------------
(* The dispatch machine: a caption is written to a path, a path is parsed *)

DispatchDocuments ==
    { Caption(None, <<>>),
      Caption(Some(<<"T">>),
              << CaptionBlock(Some(<<"P">>), from_milliseconds(0),
                              from_milliseconds(1001), <<"H", "i">>) >>) }

\* what reading a path can give: an I/O error, a text that is no caption
\* file, or a caption file in one of the formats
FileContents ==
    { None, Some(<<"x">>) }
    \cup { Some(VttWriter_write(d)) : d \in DispatchDocuments }
    \cup { Some(SrtWriter_write(d)) : d \in DispatchDocuments }

\* every path has the same contents at the start
DispatchInit ==
    /\ st = from_milliseconds(0)
    /\ old_st = from_milliseconds(0)
    /\ caption \in DispatchDocuments
    /\ old_caption = NoCaption
    /\ captions = <<>>
    /\ op = "init"
    /\ arg = 0
    /\ res = "Ok"
    /\ steps = 0
    /\ out = <<>>
    /\ files \in { [p \in Paths |-> c] : c \in FileContents }
    /\ calls = <<>>

\* parse_file(fname), where reading fname gave read, ended with the result r
ParsedFile(fname, read, r) ==
    /\ op \in {"init", "write_caption"}
    /\ files[fname] = read
    /\ op' = "parse_file"
    /\ arg' = fname
    /\ res' = r.result
    /\ out' = r.value
    /\ calls' = r.calls
    /\ UNCHANGED <<st, old_st, caption, old_caption, captions, steps, files>>

ParseFile ==
    \E fname \in Paths, read \in FileContents :
        ParsedFile(fname, read, parse_file(fname, read))

\* write_caption(fname, &caption)
WriteCaption ==
    /\ op = "init"
    /\ \E fname \in Paths, written \in BOOLEAN :
        LET r == write_caption(files, fname, caption, written)
        IN  /\ arg' = fname
            /\ res' = r.result
            /\ out' = r.value
            /\ calls' = r.calls
            /\ files' = r.files
    /\ op' = "write_caption"
    /\ UNCHANGED <<st, old_st, caption, old_caption, captions, steps>>

DispatchNext == ParseFile \/ WriteCaption

DispatchSpec == DispatchInit /\ [][DispatchNext]_vars

---------------------------------------------------------------------------
(* The timestamp machine: a time is written as a token, the token is parsed *)

\* times that from_milliseconds gives: hours below and from 100, each part at
\* both ends of its range
TimestampTimes ==
    { from_milliseconds(h * MILLIS_PER_HOUR + m * MILLIS_PER_MINUTE
                        + s * MILLIS_PER_SECOND + ms) :
        h \in {0, 1, 99, 100}, m \in {0, 59}, s \in {0, 59}, ms \in {0, 998, 999} }

TimestampInit ==
    /\ st \in TimestampTimes
    /\ old_st = st
    /\ caption = NoCaption
    /\ old_caption = NoCaption
    /\ captions = <<>>
    /\ op = "init"
    /\ arg = 0
    /\ res = "Ok"
    /\ steps = 0
    /\ out = <<>>
    /\ files = NoFiles
    /\ calls = <<>>

\* VttWriter::timestamp(&st)
VttTimestamp ==
    /\ op = "init"
    /\ op' = "VttWriter::timestamp"
    /\ arg' = st
    /\ out' = VttWriter_timestamp(st)
    /\ UNCHANGED <<st, old_st, caption, old_caption, captions, res, steps, files,
                   calls>>

\* SrtWriter::timestamp(&st)
SrtTimestamp ==
    /\ op = "init"
    /\ op' = "SrtWriter::timestamp"
    /\ arg' = st
    /\ out' = SrtWriter_timestamp(st)
    /\ UNCHANGED <<st, old_st, caption, old_caption, captions, res, steps, files,
                   calls>>

\* VttParser::block_timestamp of the token written
VttParseTimestamp ==
    /\ op = "VttWriter::timestamp"
    /\ op' = "VttParser::block_timestamp"
    /\ arg' = out
    /\ Returns(VttParser_block_timestamp(out))
    /\ UNCHANGED <<st, old_st, caption, old_caption, captions, steps, files, calls>>

\* SrtParser::block_timestamp of the token written
SrtParseTimestamp ==
    /\ op = "SrtWriter::timestamp"
    /\ op' = "SrtParser::block_timestamp"
    /\ arg' = out
    /\ Returns(SrtParser_block_timestamp(out))
    /\ UNCHANGED <<st, old_st, caption, old_caption, captions, steps, files, calls>>

TimestampNext ==
    \/ VttTimestamp
    \/ SrtTimestamp
    \/ VttParseTimestamp
    \/ SrtParseTimestamp

TimestampSpec == TimestampInit /\ [][TimestampNext]_vars

---------------------------------------------------------------------------
(* Properties of SimpleTime, checked under Spec *)

\* C1: an offset whose result would be negative fails with NegativeSimpleTime
\* and leaves hours, minutes, seconds and milliseconds as they were.
C1_NegativeOffsetRejected ==
    (op = "offset" /\ to_milliseconds(old_st) + arg < 0)
        => (res = "NegativeSimpleTime" /\ st = old_st)

\* from_milliseconds(0).offset(-1) has failed
C1_Witness ==
    /\ op = "offset"
    /\ arg = -1
    /\ old_st = SimpleTime(0, 0, 0, 0)
    /\ res = "NegativeSimpleTime"

\* C2: an offset by a non-negative delta succeeds and the total milliseconds
\* afterwards is the previous total plus the delta.
C2_NonNegativeOffsetAdds ==
    (op = "offset" /\ arg >= 0)
        => (res = "Ok" /\ to_milliseconds(st) = to_milliseconds(old_st) + arg)

\* a positive offset has carried into the next hour
C2_Witness ==
    /\ op = "offset"
    /\ arg > 0
    /\ res = "Ok"
    /\ st.hours = old_st.hours + 1
    /\ st.minutes = 0
    /\ old_st.minutes = 59

InRange(t, ms_max) ==
    /\ t.hours >= 0
    /\ t.minutes \in 0 .. 59
    /\ t.seconds \in 0 .. 59
    /\ t.milliseconds \in 0 .. ms_max

\* C3 as stated: every SimpleTime reached has minutes and seconds in 0..59 and
\* milliseconds in 0..998.
C3_MillisecondsBelow999 == InRange(st, 998)

\* C3 as amended: every SimpleTime reached has minutes and seconds in 0..59 and
\* milliseconds in 0..999.
C3_PartsInRange == InRange(st, 999)

\* a successful offset has left 999 milliseconds
C3_Witness ==
    /\ op = "offset"
    /\ res = "Ok"
    /\ st.milliseconds = 999
    /\ old_st.milliseconds # 999

\* C4: a value accepted by from_parts is equal to from_milliseconds of its
\* own to_milliseconds.
C4_PartsRoundTrip ==
    (op = "from_parts" /\ res = "Ok")
        => (/\ st = SimpleTime(arg[1], arg[2], arg[3], arg[4])
            /\ from_milliseconds(to_milliseconds(st)) = st)

\* from_parts has accepted the largest minutes, seconds and milliseconds
C4_Witness ==
    /\ op = "from_parts"
    /\ res = "Ok"
    /\ st.hours > 0
    /\ st.minutes = 59
    /\ st.seconds = 59
    /\ st.milliseconds = 998

\* C5: from_milliseconds(n) never fails, yields the quotients and remainders
\* of n by the hour, the minute and the second, and converts back to n.
C5_FromMillisecondsDecomposes ==
    (op = "from_milliseconds")
        => (/\ res = "Ok"
            /\ st.hours = arg \div 3600000
            /\ st.minutes = (arg % 3600000) \div 60000
            /\ st.seconds = (arg % 60000) \div 1000
            /\ st.milliseconds = arg % 1000
            /\ to_milliseconds(st) = arg)

\* from_milliseconds has decomposed a total with every part non-zero
C5_Witness ==
    /\ op = "from_milliseconds"
    /\ st.hours > 0
    /\ st.minutes > 0
    /\ st.seconds > 0
    /\ st.milliseconds > 0

\* C6: from_parts returns an OutOfRange error value when minutes >= 60,
\* seconds >= 60 or milliseconds >= 999, and succeeds on every other input.
C6_OutOfRangeIsReturned ==
    (op = "from_parts")
        => IF arg[2] >= 60 \/ arg[3] >= 60 \/ arg[4] >= 999
           THEN res = "OutOfRange"
           ELSE res = "Ok" /\ st = SimpleTime(arg[1], arg[2], arg[3], arg[4])

---------------------------------------------------------------------------
(* Properties of Caption::offset_milliseconds, checked under CaptionSpec *)

Feasible(cap, n) ==
    \A i \in 1 .. Len(cap.blocks) :
        /\ to_milliseconds(cap.blocks[i].start) + n >= 0
        /\ to_milliseconds(cap.blocks[i].end) + n >= 0

ShiftedBy(b, o, n) ==
    /\ b.speaker = o.speaker
    /\ b.text = o.text
    /\ to_milliseconds(b.start) = to_milliseconds(o.start) + n
    /\ to_milliseconds(b.end) = to_milliseconds(o.end) + n

\* C7: offset_milliseconds(n) succeeds exactly when start + n >= 0 and
\* end + n >= 0 for every block; on success the header, the number and order of
\* blocks, the speakers and the texts are kept and every start and end is
\* shifted by n; otherwise it fails with NegativeSimpleTime.
C7_OffsetAllShiftsEveryBlock ==
    (op = "offset_milliseconds")
        => IF Feasible(old_caption, arg)
           THEN /\ res = "Ok"
                /\ caption.header = old_caption.header
                /\ Len(caption.blocks) = Len(old_caption.blocks)
                /\ \A i \in 1 .. Len(caption.blocks) :
                       ShiftedBy(caption.blocks[i], old_caption.blocks[i], arg)
           ELSE res = "NegativeSimpleTime"

\* a document with a header and two blocks has been moved back
C7_Witness ==
    /\ op = "offset_milliseconds"
    /\ res = "Ok"
    /\ arg < 0
    /\ caption.header # None
    /\ Len(caption.blocks) = 2
    /\ caption.blocks[1] # caption.blocks[2]

\* C8: when offset_milliseconds fails, every block has the start and end it
\* had before the call.
C8_FailedOffsetChangesNothing ==
    (op = "offset_milliseconds" /\ res # "Ok") => caption = old_caption

---------------------------------------------------------------------------
(* Properties of Caption::concatenate, checked under ConcatSpec *)

AllNonEmpty(caps) == \A k \in 1 .. Len(caps) : Len(caps[k].blocks) > 0

\* sum of the last block's end over the documents before the i-th
RECURSIVE TailsBefore(_, _)
TailsBefore(caps, i) ==
    IF i <= 1 THEN 0
    ELSE TailsBefore(caps, i - 1)
         + to_milliseconds(caps[i - 1].blocks[Len(caps[i - 1].blocks)].end)

\* number of blocks in the documents before the i-th
RECURSIVE BlocksBefore(_, _)
BlocksBefore(caps, i) ==
    IF i <= 1 THEN 0 ELSE BlocksBefore(caps, i - 1) + Len(caps[i - 1].blocks)

\* C9: concatenating non-empty documents yields a document without header whose
\* blocks are those of the inputs in input order, the blocks of the i-th
\* document shifted by the sum of the last times of the documents before it.
C9_ConcatenateShiftsByRunningSum ==
    (op = "concatenate" /\ AllNonEmpty(arg))
        => /\ res = "Ok"
           /\ caption.header = None
           /\ Len(caption.blocks) = BlocksBefore(arg, Len(arg) + 1)
           /\ \A i \in 1 .. Len(arg) : \A j \in 1 .. Len(arg[i].blocks) :
                  ShiftedBy(caption.blocks[BlocksBefore(arg, i) + j],
                            arg[i].blocks[j], TailsBefore(arg, i))

\* three documents, one with a header, have been concatenated and the third is
\* shifted by more than the second document's last time
C9_Witness ==
    /\ op = "concatenate"
    /\ res = "Ok"
    /\ Len(arg) = 3
    /\ AllNonEmpty(arg)
    /\ \E k \in 1 .. 3 : arg[k].header # None
    /\ to_milliseconds(arg[1].blocks[Len(arg[1].blocks)].end) > 0
    /\ Len(arg[2].blocks) = 2
    /\ caption.blocks[1] = arg[1].blocks[1]

\* C10: concatenate returns an EmptyDocument error value whenever an input
\* document has no block.
C10_EmptyDocumentIsReturned ==
    (op = "concatenate" /\ ~AllNonEmpty(arg)) => res = "EmptyDocument"

---------------------------------------------------------------------------
(* Properties of the Caption queries, checked under CaptionSpec *)

\* C11: on a document without blocks time_head and time_tail return an
\* EmptyDocument error value; otherwise they return the first block's start
\* and the last block's end.
C11_EmptyDocumentFromQueries ==
    (op \in {"time_head", "time_tail"})
        => IF Len(caption.blocks) = 0
           THEN res = "EmptyDocument"
           ELSE /\ res = "Ok"
                /\ op = "time_head"
                     => out = to_milliseconds(caption.blocks[1].start)
                /\ op = "time_tail"
                     => out = to_milliseconds(caption.blocks[Len(caption.blocks)].end)

---------------------------------------------------------------------------
(* Properties of CaptionBlock::from, checked under BlockSpec *)

---------------------------------------------------------------------------
(* Properties of the line parsers, checked under GrammarSpec *)

TokenParsers == {"VttParser::block_timestamp", "SrtParser::block_timestamp"}

RangeParsers == {"VttParser::block_header_timestamps", "SrtParser::block_timestamps"}

\* the separator of seconds and milliseconds of the variant of a parser
SeparatorOf(name) ==
    IF name \in {"VttParser::block_timestamp", "VttParser::block_header_timestamps"}
    THEN "." ELSE ","

\* a digit group is an unsigned integer as str::parse::<usize> reads one
IsUnsigned(group) == parse_usize(group).result = "Ok"

\* C17: a token is rejected with InvalidTimestamp(token) when its length is
\* not 12, when the character at position 2 or 5 is not ':' or the one at
\* position 8 is not the variant's separator, or when one of its four digit
\* groups is not an unsigned integer; every other token yields the time with
\* those hours, minutes, seconds and milliseconds.
C17_TokenParsing ==
    op \in TokenParsers =>
        LET malformed ==
                \/ Len(arg) # 12
                \/ arg[3] # ":"
                \/ arg[6] # ":"
                \/ arg[9] # SeparatorOf(op)
                \/ ~IsUnsigned(SubSeq(arg, 1, 2))
                \/ ~IsUnsigned(SubSeq(arg, 4, 5))
                \/ ~IsUnsigned(SubSeq(arg, 7, 8))
                \/ ~IsUnsigned(SubSeq(arg, 10, 12))
        IN  IF malformed
            THEN res = "InvalidTimestamp" /\ out = arg
            ELSE /\ res = "Ok"
                 /\ out = SimpleTime(parse_usize(SubSeq(arg, 1, 2)).value,
                                     parse_usize(SubSeq(arg, 4, 5)).value,
                                     parse_usize(SubSeq(arg, 7, 8)).value,
                                     parse_usize(SubSeq(arg, 10, 12)).value)

FirstDigit(s) ==
    IF \A i \in 1..Len(s) : ~IsDigit(s[i]) THEN 0
    ELSE CHOOSE i \in 1..Len(s) :
            IsDigit(s[i]) /\ \A j \in 1..(i - 1) : ~IsDigit(s[j])

\* the header line ended as the range r did, with this speaker
EndedAsRange(speaker, r) ==
    IF r.result = "Ok"
    THEN res = "Ok" /\ out = HeaderParts(speaker, r.value)
    ELSE res = r.result /\ out = r.value

\* the three cases of a header line: a digit first, no digit or no space
\* before the first digit, a speaker and a space before the first digit
HeaderLineCases ==
    LET d == FirstDigit(arg)
    IN  IF d = 1
        THEN EndedAsRange(None, VttParser_block_header_timestamps(arg))
        ELSE IF d = 0 \/ arg[d - 1] # " "
        THEN res = "BlockHeaderInvalid" /\ out = arg
        ELSE EndedAsRange(Some(SubSeq(arg, 1, d - 2)),
                          VttParser_block_header_timestamps(SubSeq(arg, d, Len(arg))))

\* C19 as stated: a header line that starts with a digit is parsed as a range
\* with no speaker; any other line fails with BlockHeaderInvalid(line) when
\* it has no digit or the character before its first digit is not a space,
\* and else gives the speaker before that space and the range from the digit.
C19_HeaderLineAsStated ==
    op = "VttParser::block_header" => HeaderLineCases

\* C19: the same for every line that is not empty; the empty line fails with
\* UnexpectedEndOfFile.
C19_HeaderLine ==
    op = "VttParser::block_header" =>
        IF arg = <<>> THEN res = "UnexpectedEndOfFile" ELSE HeaderLineCases

\* a line with the speaker "Pete M" before its range was parsed
C19_Witness ==
    /\ op = "VttParser::block_header"
    /\ res = "Ok"
    /\ out.speaker = Some(<<"P", "e", "t", "e", " ", "M">>)
    /\ arg = <<"P", "e", "t", "e", " ", "M", " ">>
             \o timestamp_text(0, 0, 0, 0, ".") \o <<" ">> \o ARROW \o <<" ">>
             \o timestamp_text(0, 0, 1, 1, ".")

\* C20: a text line without '[' is returned whole, with no speaker; a line
\* whose '[' is not its first character, or that has no ']', fails with
\* InvalidSpeakerPlacement(line); any other line is "[speaker] text": the
\* speaker between the brackets, one space, and the text.
C20_TextLine ==
    op = "SrtParser::block_text" =>
        IF position_of(arg, "[") = None
        THEN res = "Ok" /\ out = TextParts(None, arg)
        ELSE IF arg[1] # "[" \/ position_of(arg, "]") = None
        THEN res = "InvalidSpeakerPlacement" /\ out = arg
        ELSE /\ res = "Ok"
             /\ out.speaker # None
             /\ \A i \in 1..Len(out.speaker[1]) : out.speaker[1][i] # "]"
             /\ arg = <<"[">> \o out.speaker[1] \o <<"]", " ">> \o out.text

---------------------------------------------------------------------------
(* Properties of writing and parsing, checked under RoundTripSpec *)

\* C12: parsing the VTT text written from a document succeeds and gives the
\* document back, header and blocks.
C12_VttRoundTrip ==
    op = "VttParser::parse" => res = "Ok" /\ out = caption

\* C13: parsing the SRT text written from a document succeeds and gives the
\* document back, header and blocks.
C13_SrtRoundTrip ==
    op = "SrtParser::parse" => res = "Ok" /\ out = caption

---------------------------------------------------------------------------
(* Properties of parsing, checked under ParseSpec *)

\* C15: every block of a document that a parse returned, or that successful
\* offsets and concatenations made of it, starts no later than it ends.
C15_StartNotAfterEnd ==
    (op # "init" /\ res = "Ok") =>
        \A i \in 1..Len(caption.blocks) :
            to_milliseconds(caption.blocks[i].start)
                <= to_milliseconds(caption.blocks[i].end)

ParseErrors ==
    { "UnexpectedEndOfFile", "ExpectedBlankLine", "ExpectedBlockNumber",
      "BlockHeaderInvalid", "InvalidTimestamp", "InvalidSpeakerPlacement" }

\* C16: parsing a text in either format ends with a document or with one of
\* the parse errors, and never panics.
C16_ParseNeverPanics ==
    op \in {"VttParser::parse", "SrtParser::parse"} =>
        res \in ParseErrors \cup {"Ok"}

---------------------------------------------------------------------------
(* Properties of parse_file and write_caption, checked under DispatchSpec *)

Dispatchers == {"parse_file", "write_caption"}

\* C21: a path with extension vtt or txt goes to the VTT parser or writer, one
\* with extension srt to the SRT one; any other extension fails with
\* UnsupportedFileType and a path with no extension with UnknownExtension,
\* and then no parser or writer is invoked.
C21_DispatchByExtension ==
    op \in Dispatchers =>
        LET ext == extension(arg)
            reads == op = "parse_file"
        IN  IF ext = None THEN res = "UnknownExtension" /\ calls = <<>>
            ELSE IF ext[1] \in {VTT, TXT}
            THEN calls = IF reads THEN <<"VttParser::from_file">>
                         ELSE <<"VttWriter::to_file">>
            ELSE IF ext[1] = SRT
            THEN calls = IF reads THEN <<"SrtParser::from_file">>
                         ELSE <<"SrtWriter::to_file">>
            ELSE res = "UnsupportedFileType" /\ calls = <<>>

\* "a.txt" was parsed by the VTT parser
C21_Witness ==
    /\ op = "parse_file"
    /\ arg = <<"a", ".", "t", "x", "t">>
    /\ calls = <<"VttParser::from_file">>
    /\ res = "Ok"

\* C22: from parse_file and from write_caption alike, UnsupportedFileType
\* carries the extension and UnknownExtension carries the file name.
C22_DispatchPayloads ==
    op \in Dispatchers =>
        /\ res = "UnsupportedFileType" => out = extension(arg)[1]
        /\ res = "UnknownExtension" => out = arg

---------------------------------------------------------------------------
(* Properties of the writers, checked under ParseSpec *)

\* the header line and the text line of a block in each format
VttHeaderLineOf(cb) ==
    (IF cb.speaker = None THEN <<>> ELSE cb.speaker[1] \o <<" ">>)
    \o VttWriter_timestamp(cb.start) \o <<" ">> \o ARROW \o <<" ">>
    \o VttWriter_timestamp(cb.end)

SrtRangeLineOf(cb) ==
    SrtWriter_timestamp(cb.start) \o <<" ">> \o ARROW \o <<" ">>
    \o SrtWriter_timestamp(cb.end)

SrtTextLineOf(cb) ==
    (IF cb.speaker = None THEN <<>> ELSE <<"[">> \o cb.speaker[1] \o <<"]", " ">>)
    \o cb.text

\* the lines of the blocks, the k-th with the index k after a blank line
VttBlockLines(blocks) ==
    Flatten([k \in 1..Len(blocks) |->
                << <<>>, to_string(k), VttHeaderLineOf(blocks[k]), blocks[k].text >>])

SrtBlockLines(blocks) ==
    Flatten([k \in 1..Len(blocks) |->
                << <<>>, to_string(k), SrtRangeLineOf(blocks[k]),
                   SrtTextLineOf(blocks[k]) >>])

\* C23: the VTT text written is the header and a blank line (when there is a
\* header), the line WEBVTT, and for the k-th block a blank line, the line k,
\* the header line and the text line; the SRT text written is, for the k-th
\* block, the line k, the range and the text line, with a blank line between
\* blocks; k counts from 1 whatever numbers the parsed text had.
C23_WritersNumberFromOne ==
    /\ op = "VttWriter::write" =>
        out = join((IF arg.header = None THEN <<>> ELSE <<arg.header[1], <<>> >>)
                   \o <<WEBVTT>> \o VttBlockLines(arg.blocks), NL) \o NL
    /\ op = "SrtWriter::write" =>
        out = IF arg.blocks = <<>> THEN <<>>
              ELSE join(Tail(SrtBlockLines(arg.blocks)), NL) \o NL

\* a document with a header and two blocks was written as VTT
C23_Witness ==
    /\ op = "VttWriter::write"
    /\ arg.header # None
    /\ Len(arg.blocks) = 2
    /\ arg.blocks[1].speaker # None
    /\ lines(out)[9] = <<"2">>

---------------------------------------------------------------------------
(* Properties of the layout of a file, checked under ParseSpec *)

\* the index (from 0) of the first line "WEBVTT" of a text that has one
MarkerIndex(ls) ==
    (CHOOSE i \in 1..Len(ls) : ls[i] = WEBVTT /\ \A j \in 1..(i - 1) : ls[j] # WEBVTT) - 1

HasMarker(ls) == \E i \in 1..Len(ls) : ls[i] = WEBVTT

\* the i-th group of four of these lines, joined into one block
GroupOf(ls, i) == join(SubSeq(ls, 4 * i - 3, 4 * i), NL)

\* C24: a VTT text with no line WEBVTT fails with UnexpectedEndOfFile; with
\* the first such line at index n, a parse that succeeds has no header when
\* n <= 2 and else the first n - 2 lines joined with line feeds as its header,
\* and its first block is parsed from the four lines from index n + 1 on.
C24_HeaderBoundary ==
    op = "VttParser::parse" =>
        LET ls == lines(arg)
        IN  IF ~HasMarker(ls) THEN res = "UnexpectedEndOfFile"
            ELSE LET n == MarkerIndex(ls)
                 IN  res = "Ok" =>
                        /\ out.header = IF n <= 2 THEN None
                                        ELSE Some(join(SubSeq(ls, 1, n - 2), NL))
                        /\ out.blocks # <<>> =>
                            Ok(out.blocks[1])
                                = VttParser_block(join(SubSeq(ls, n + 2, n + 5), NL))

\* a text with the marker at index 4 gave the header "a\nb" and a block
C24_Witness ==
    /\ op = "VttParser::parse"
    /\ res = "Ok"
    /\ MarkerIndex(lines(arg)) = 4
    /\ out.header = Some(<<"a", "\n", "b">>)
    /\ Len(out.blocks) = 1

\* the parse of k lines in groups of four ended as C25 says
Partitioned(ls, vtt) ==
    LET k == Len(ls)
        Block(i) == IF vtt THEN VttParser_block(GroupOf(ls, i))
                    ELSE SrtParser_block(GroupOf(ls, i))
    IN  IF k % 4 # 0 THEN res = "UnexpectedEndOfFile"
        ELSE (\A i \in 1..(k \div 4) : Block(i).result = "Ok") =>
                /\ res = "Ok"
                /\ Len(out.blocks) = k \div 4
                /\ \A i \in 1..(k \div 4) : out.blocks[i] = Block(i).value

\* C25: with k the number of lines after the marker (VTT), or one more than
\* the number of lines (SRT, a blank line being put first), the parse fails
\* with UnexpectedEndOfFile when k is not a multiple of 4; when it is and
\* every group of four lines parses, the result has k / 4 blocks, the i-th
\* parsed from the i-th group.
C25_BlockPartition ==
    /\ (op = "VttParser::parse" /\ HasMarker(lines(arg))) =>
        Partitioned(SubSeq(lines(arg), MarkerIndex(lines(arg)) + 2, Len(lines(arg))),
                    TRUE)
    /\ op = "SrtParser::parse" => Partitioned(<< <<>> >> \o lines(arg), FALSE)

\* two groups gave two blocks that differ, in the order of the text
C25_Witness ==
    /\ op = "SrtParser::parse"
    /\ res = "Ok"
    /\ Len(out.blocks) = 2
    /\ out.blocks[1].speaker = None
    /\ out.blocks[2].speaker # None

---------------------------------------------------------------------------
(* Properties of the block parsers, checked under GrammarSpec *)

\* the block parser of an operation applied to a group of lines
BlockOf(name, group) ==
    IF name = "VttParser::block" THEN VttParser_block(join(group, NL))
    ELSE SrtParser_block(join(group, NL))

\* C26: a group of fewer than four lines fails with UnexpectedEndOfFile; a
\* group of four whose first line is not empty fails with ExpectedBlankLine
\* carrying that line, and else one whose second line is not an unsigned
\* integer fails with ExpectedBlockNumber carrying that line; a number that
\* is valid has no effect: the group ends as it does with another number.
C26_BlockStructure ==
    op \in {"VttParser::block", "SrtParser::block"} =>
        IF Len(arg) < 4 THEN res = "UnexpectedEndOfFile"
        ELSE IF arg[1] # <<>> THEN res = "ExpectedBlankLine" /\ out = arg[1]
        ELSE IF ~IsUnsigned(arg[2]) THEN res = "ExpectedBlockNumber" /\ out = arg[2]
        ELSE LET r == BlockOf(op, [arg EXCEPT ![2] = <<"4", "2">>])
             IN  res = r.result /\ out = r.value

---------------------------------------------------------------------------
(* Properties of written timestamps, checked under TimestampSpec *)

\* C27: the token a writer renders for a time has 12 characters, and the
\* timestamp parser of the same format accepts it and returns that time.
C27_TimestampRoundTrip ==
    op \in TokenParsers => Len(arg) = 12 /\ res = "Ok" /\ out = st

---------------------------------------------------------------------------
(* Properties of successive offsets, checked under Spec *)

\* C28: when offset(a) has succeeded on a time t and t + a + b >= 0, the
\* offset(b) that follows succeeds and leaves the time that is t + a + b
\* milliseconds; with b = -a it leaves t.
C28_OffsetsCompose ==
    [][ (/\ op = "offset"
         /\ res = "Ok"
         /\ op' = "offset"
         /\ to_milliseconds(old_st) + arg + arg' >= 0)
        => (/\ res' = "Ok"
            /\ st' = from_milliseconds(to_milliseconds(old_st) + arg + arg')
            /\ (arg >= 0 /\ arg' = -arg) => st' = old_st) ]_vars

\* an hour was added to a time of the highest hour constructed, then taken off
C28_Witness ==
    /\ op = "offset"
    /\ steps = 2
    /\ res = "Ok"
    /\ old_st.hours = MaxHours + 1
    /\ arg = -MILLIS_PER_HOUR
    /\ st.hours = MaxHours

---------------------------------------------------------------------------
(* Properties of the seams of Caption::concatenate, checked under ConcatSpec *)

\* the end of the last block of a document that has one
LastEnd(cap) == to_milliseconds(cap.blocks[Len(cap.blocks)].end)

\* C29: in the concatenation of non-empty documents, every block that came
\* from the i-th document (i >= 2) starts no earlier than the last block that
\* came from the document before it ends, and the last block of the result
\* ends at the sum of the last times of all the documents.
C29_NoOverlapAtSeams ==
    (op = "concatenate" /\ AllNonEmpty(arg) /\ arg # <<>>)
        => /\ res = "Ok"
           /\ \A i \in 2 .. Len(arg) : \A j \in 1 .. Len(arg[i].blocks) :
                  to_milliseconds(caption.blocks[BlocksBefore(arg, i) + j].start)
                      >= to_milliseconds(caption.blocks[BlocksBefore(arg, i)].end)
           /\ LastEnd(caption) = TailsBefore(arg, Len(arg) + 1)

\* the second document starts, unshifted, before the first one's last block
\* ends, and its first block was moved to that end
C29_Witness ==
    /\ op = "concatenate"
    /\ res = "Ok"
    /\ Len(arg) = 2
    /\ AllNonEmpty(arg)
    /\ to_milliseconds(arg[2].blocks[1].start) = 0
    /\ LastEnd(arg[1]) > 0
    /\ to_milliseconds(caption.blocks[Len(arg[1].blocks) + 1].start) = LastEnd(arg[1])

\* C30: for non-empty documents a, b, c, concatenating the concatenation of
\* a and b with c, and a with the concatenation of b and c, both give the
\* blocks of the concatenation of a, b and c; the concatenation of one
\* document has its blocks as they are and no header.
C30_ConcatenateAssociates ==
    (op = "concatenate" /\ AllNonEmpty(arg))
        => /\ Len(arg) = 3 =>
                /\ concatenate(<<concatenate(<<arg[1], arg[2]>>), arg[3]>>).blocks
                       = caption.blocks
                /\ concatenate(<<arg[1], concatenate(<<arg[2], arg[3]>>)>>).blocks
                       = caption.blocks
           /\ Len(arg) = 1 => caption = Caption(None, arg[1].blocks)

\* three documents that differ, the first two ending after 0, were concatenated
C30_Witness ==
    /\ op = "concatenate"
    /\ res = "Ok"
    /\ Len(arg) = 3
    /\ AllNonEmpty(arg)
    /\ arg[1].blocks # arg[2].blocks
    /\ arg[2].blocks # arg[3].blocks
    /\ LastEnd(arg[1]) > 0
    /\ LastEnd(arg[2]) > LastEnd(arg[1])
    /\ arg[1].header # None

=============================================================================
